---- MODULE Spec2Model ----
(***************************************************************************)
(* State-machine model of the Persona editor form                          *)
(* (web/src/app/admin/personas/PersonaEditor.tsx).                         *)
(*                                                                         *)
(* The editor is a Formik form.  Its state is the draft (`values`), the    *)
(* two React state cells `finalPrompt` and `finalPromptError`, Formik's    *)
(* `isSubmitting` flag, the pop-up cell, and the asynchronous calls that   *)
(* are in flight: preview requests (buildFinalPrompt) and persistence      *)
(* requests (createPersona / updatePersona).                               *)
(*                                                                         *)
(* Library behaviour the form relies on, as documented by Formik and Yup:  *)
(*  - every field change and every submit attempt evaluates the            *)
(*    validation schema, which runs the object-level test callback;        *)
(*  - before validating, Formik replaces "" by undefined;                  *)
(*  - a test callback that returns a falsy value fails the schema;         *)
(*  - a schema that is not nullable() rejects null;                        *)
(*  - onSubmit is invoked only when Formik holds no validation error, and  *)
(*    isSubmitting is reset when the promise of onSubmit settles.          *)
(* Formik keys its errors by field path and the object-level test has no   *)
(* field path, so whether a failure of that test alone is held as an error *)
(* is left open (the parameter of Submit): the form either stops in Formik *)
(* or reaches the guard at the top of onSubmit.  The test callback runs    *)
(* inside the submit event, so the render that follows its                 *)
(* setFinalPromptError is committed before Formik calls onSubmit, and      *)
(* onSubmit reads the error that this attempt's validation has stored.     *)
(*                                                                         *)
(* A session is explored up to MaxEdits field edits; submit attempts,      *)
(* responses and preview completions are not limited.                      *)
(*                                                                         *)
(* Four specifications share the actions: Spec is the form with its        *)
(* scalar fields, previews and submission; SpecOkPreviews is Spec with a   *)
(* preview builder that never fails; SpecLists is the form's conditional   *)
(* sections and its two collections (document sets, starter messages),     *)
(* explored up to MaxListOps edits under every value of the props;         *)
(* FairSubmitSpec is the submission path under the assumption that the     *)
(* persistence collaborator answers every request (weak fairness).         *)
(***************************************************************************)
EXTENDS Integers, Sequences, FiniteSets, TLC

\* ------------------------------------------------------------------ bounds
MaxInFlight == 2      \* preview requests in flight at once
MaxPending  == 2      \* persistence requests in flight at once (cap only)
MaxEdits    == 2      \* field edits the user makes in one session
MaxListOps  == 4      \* edits in one session, collection edits included
MaxStarterMessages == 4   \* entries the starter-message list grows to

\* --------------------------------------------------------------- constants
DefaultNumChunks == 10
MaxNumChunks == 20

PromptError == "Must provide at least one of System Prompt or Task Prompt"
SubmitBlockedMessage == "Cannot submit while there are errors in the form!"

\* ------------------------------------------------------- JavaScript values
\* num_chunks holds null, a number (seeded from the existing persona) or the
\* string typed into the text field (a sequence of decimal digits).
Null == [t |-> "null", n |-> 0, s |-> <<>>]
Num(k) == [t |-> "num", n |-> k, s |-> <<>>]
Str(digits) == [t |-> "str", n |-> 0, s |-> digits]

\* JavaScript truthiness of such a value.
Truthy(x) ==
    CASE x.t = "null" -> FALSE
      [] x.t = "num"  -> x.n # 0
      [] x.t = "str"  -> Len(x.s) > 0

\* The number a string of decimal digits denotes.
RECURSIVE DigitsValue(_)
DigitsValue(d) ==
    IF d = <<>> THEN 0
    ELSE 10 * DigitsValue(SubSeq(d, 1, Len(d) - 1)) + d[Len(d)]

VARIABLES
    existingPersona,   \* the prop: absent (create mode) or the persona being edited
    llmOverrideOptions, \* the prop: the model names that can be selected
    defaultLLM,        \* the prop: the default model's name, "" when unknown
    mounted,           \* the mount effect has run
    values,            \* Formik's values: the draft
    isSubmitting,      \* Formik's isSubmitting
    finalPrompt,       \* useState cell: the displayed preview
    finalPromptError,  \* useState cell: the cross-field error
    popup,             \* the pop-up cell: absent or [type, message]
    previewInFlight,   \* buildFinalPrompt calls awaiting their response
    response,          \* the response the last preview completion received
    pending,           \* createPersona/updatePersona calls awaiting a response
    promptResponse,    \* onSubmit's local, after the await
    personaResponse,   \* onSubmit's local, after the await
    navigated,         \* router.push was called
    edits,             \* field edits made so far
    lastOp,            \* the handler that ran last
    lastArg,           \* the index handed to the last arrayHelpers.remove(index)
    toggleLog          \* the last two document-set clicks: [id, before]

vars == <<existingPersona, llmOverrideOptions, defaultLLM,
          mounted, values, isSubmitting, finalPrompt,
          finalPromptError, popup, previewInFlight, response,
          pending, promptResponse, personaResponse, navigated, edits, lastOp,
          lastArg, toggleLog>>

\* --------------------------------------------------- optional values
\* A value that may be null/undefined is a sequence of length 0 or 1.
Absent == <<>>
Some(x) == <<x>>
IsPresent(o) == o # <<>>
Get(o) == o[1]

\* ------------------------------------------------ the editor's inputs
SystemPrompts == {"", "s"}
TaskPrompts == {"", "t"}
Names == {"", "n"}
Descriptions == {"", "d"}
PromptErrorBodies == {"", "p"}
PersonaErrorBodies == {"", "q"}
NonDigit == 10
\* what the user can type into the chunk-count box
TypedChunks == {<<>>, <<0>>, <<7>>, <<2, 5>>, <<NonDigit>>}

Prompt(sys, task) ==
    [id |-> 1, system_prompt |-> sys, task_prompt |-> task,
     include_citations |-> FALSE]

\* a stored persona with the given prompts and chunk count
Persona(prompts, chunks) ==
    [id |-> 7,
     name |-> "n",
     description |-> "d",
     prompts |-> prompts,
     document_sets |-> <<1>>,
     num_chunks |-> chunks,
     llm_relevance_filter |-> FALSE,
     llm_model_version_override |-> Absent,
     starter_messages |-> Some(<<>>)]

\* the personas the editor can be opened on (update mode)
Personas ==
    {Persona(<<>>, Null),
     Persona(<<Prompt("", "")>>, Null),
     Persona(<<Prompt("s", "")>>, Null),
     Persona(<<Prompt("s", "")>>, Num(0)),
     Persona(<<Prompt("s", "")>>, Num(15))}

\* the ids of the prop documentSets, in the order they are rendered
DocumentSets == <<1, 2, 3>>

\* a stored starter message
StarterMessage(name) ==
    [t |-> "obj", name |-> name, description |-> "d", message |-> "m"]

\* the string "" as an entry of starter_messages: it has none of the fields
EmptyString == [t |-> "str", name |-> "", description |-> "", message |-> ""]

\* a stored persona with the given document sets and starter messages
PersonaWith(docs, starters, chunks) ==
    [Persona(<<Prompt("s", "")>>, chunks)
        EXCEPT !.document_sets = docs, !.starter_messages = Some(starters)]

\* the personas whose collections the editor is opened on
ListPersonas ==
    {PersonaWith(<<>>, <<>>, Null),
     PersonaWith(<<2, 1>>,
                 <<StarterMessage("a"), StarterMessage("b"), StarterMessage("c")>>,
                 Num(15)),
     PersonaWith(<<3>>,
                 <<StarterMessage("a"), StarterMessage("a"), StarterMessage("b")>>,
                 Num(0))}

\* the values of the props llmOverrideOptions and defaultLLM
LlmOverrideOptionLists == {<<>>, <<"gpt-4">>}
DefaultLLMs == {"", "gpt-3.5-turbo"}

\* ---------------------------------------------------- derived props
isUpdate == IsPresent(existingPersona)

\* existingPersona?.prompts[0] ?? null
existingPrompt ==
    IF isUpdate /\ Len(Get(existingPersona).prompts) > 0
    THEN Some(Get(existingPersona).prompts[1])
    ELSE Absent

\* variant: the draft always starts with retrieval enabled
initialValuesRetrievalOn(persona) ==
    LET has == IsPresent(persona)
        p == Get(persona)
        prompt == IF has /\ Len(p.prompts) > 0 THEN Some(p.prompts[1]) ELSE Absent
        chunks == IF has THEN p.num_chunks ELSE Null
    IN [name |-> IF has THEN p.name ELSE "",
        description |-> IF has THEN p.description ELSE "",
        system_prompt |-> IF IsPresent(prompt) THEN Get(prompt).system_prompt ELSE "",
        task_prompt |-> IF IsPresent(prompt) THEN Get(prompt).task_prompt ELSE "",
        disable_retrieval |-> FALSE,
        document_set_ids |-> IF has THEN p.document_sets ELSE <<>>,
        num_chunks |-> chunks,
        include_citations |->
            IF IsPresent(prompt) THEN Get(prompt).include_citations ELSE TRUE,
        llm_relevance_filter |-> IF has THEN p.llm_relevance_filter ELSE FALSE,
        llm_model_version_override |->
            IF has THEN p.llm_model_version_override ELSE Absent,
        starter_messages |-> IF has THEN p.starter_messages ELSE Absent]

\* Formik's initialValues
initialValues(persona) ==
    LET has == IsPresent(persona)
        p == Get(persona)
        prompt == IF has /\ Len(p.prompts) > 0 THEN Some(p.prompts[1]) ELSE Absent
        chunks == IF has THEN p.num_chunks ELSE Null
    IN [name |-> IF has THEN p.name ELSE "",
        description |-> IF has THEN p.description ELSE "",
        system_prompt |-> IF IsPresent(prompt) THEN Get(prompt).system_prompt ELSE "",
        task_prompt |-> IF IsPresent(prompt) THEN Get(prompt).task_prompt ELSE "",
        disable_retrieval |->
            (IF chunks.t = "null" THEN Num(DefaultNumChunks) ELSE chunks) = Num(0),
        document_set_ids |-> IF has THEN p.document_sets ELSE <<>>,
        num_chunks |-> chunks,
        include_citations |->
            IF IsPresent(prompt) THEN Get(prompt).include_citations ELSE TRUE,
        llm_relevance_filter |-> IF has THEN p.llm_relevance_filter ELSE FALSE,
        llm_model_version_override |->
            IF has THEN p.llm_model_version_override ELSE Absent,
        starter_messages |-> IF has THEN p.starter_messages ELSE Absent]

\* ------------------------------------------------------------ render
\* {!values.disable_retrieval && <BooleanFormField name="include_citations" />}
CitationsVisible(v) == ~v.disable_retrieval

\* {!values.disable_retrieval && <HidableSection "What data should I ...">}
DataAccessVisible(v) == ~v.disable_retrieval

\* variant: the section does not ask for the default model's name
ModelSelectionVisibleWithoutDefault(options, default) == Len(options) > 0

\* {llmOverrideOptions.length > 0 && defaultLLM && <HidableSection ...>}
ModelSelectionVisible(options, default) == Len(options) > 0 /\ default # ""

\* {!values.disable_retrieval && <HidableSection "Retrieval Customization">}
RetrievalCustomizationVisible(v) == ~v.disable_retrieval

\* the starter-messages section is rendered without a condition
StarterMessagesVisible == TRUE

\* the conditional sections the editor renders for a draft and its props
VisibleSections(v, options, default) ==
    (IF CitationsVisible(v) THEN {"citations"} ELSE {})
      \cup (IF DataAccessVisible(v) THEN {"data-access"} ELSE {})
      \cup (IF ModelSelectionVisible(options, default)
            THEN {"model-selection"} ELSE {})
      \cup (IF RetrievalCustomizationVisible(v)
            THEN {"retrieval-customization"} ELSE {})
      \cup (IF StarterMessagesVisible THEN {"starter-messages"} ELSE {})

\* ------------------------------------------------------- validation
\* Yup.string().required(): Formik hands "" over as undefined
RequiredString(str) == str # ""

\* Yup.number().max(20).nullable(), on the value Formik hands over
NumChunksValid(x) ==
    CASE x.t = "null" -> TRUE
      [] x.t = "num"  -> x.n <= MaxNumChunks
      [] x.t = "str"  -> x.s = <<>> \/ DigitsValue(x.s) <= MaxNumChunks

\* one entry of starter_messages: an object with three required strings
StarterMessageValid(m) ==
    /\ m.t = "obj"
    /\ RequiredString(m.name)
    /\ RequiredString(m.description)
    /\ RequiredString(m.message)

\* Yup.array().of(...), not nullable
StarterMessagesValid(sm) ==
    /\ IsPresent(sm)
    /\ \A i \in 1..Len(Get(sm)) : StarterMessageValid(Get(sm)[i])

\* the per-field rules of the schema
FieldsValid(v) ==
    /\ RequiredString(v.name)
    /\ RequiredString(v.description)
    /\ NumChunksValid(v.num_chunks)
    /\ StarterMessagesValid(v.starter_messages)

\* values.x ? values.x.length > 0 : false
PromptSpecified(str) == IF str # "" THEN str # "" ELSE FALSE

\* the object-level test "system-prompt-or-task-prompt": its result
\* (a missing return value counts as a failure)
TestPasses(v) ==
    PromptSpecified(v.system_prompt) \/ PromptSpecified(v.task_prompt)

\* variant: the passing branch lacks setFinalPromptError("")
TestErrorNeverCleared(v) == IF TestPasses(v) THEN finalPromptError ELSE PromptError

\* ... and the value it stores with setFinalPromptError
TestError(v) == IF TestPasses(v) THEN "" ELSE PromptError

\* ------------------------------------------------------- collaborators
\* buildFinalPrompt's template for a request
BuildFinalPrompt(req) ==
    <<req.system_prompt, req.task_prompt,
      IF req.retrieval_disabled THEN "no-retrieval" ELSE "retrieval">>

PreviewRequest(sys, task, disabled) ==
    [system_prompt |-> sys, task_prompt |-> task, retrieval_disabled |-> disabled]

\* the responses createPersona / updatePersona can resolve to
PromptResponses ==
    [ok : {TRUE}, body : {""}] \cup [ok : {FALSE}, body : PromptErrorBodies]
PersonaResponses ==
    {Absent} \cup {Some(r) : r \in [ok : {TRUE}, body : {""}]
                                   \cup [ok : {FALSE}, body : PersonaErrorBodies]}

\* ------------------------------------------------------------- Init
Init ==
    /\ existingPersona \in {Absent} \cup {Some(p) : p \in Personas}
    /\ llmOverrideOptions = <<"gpt-4">>
    /\ defaultLLM = "gpt-3.5-turbo"
    /\ mounted = FALSE
    /\ values = initialValues(existingPersona)
    /\ isSubmitting = FALSE
    /\ finalPrompt = <<>>
    /\ finalPromptError = ""
    /\ popup = Absent
    /\ previewInFlight = <<>>
    /\ response = Absent
    /\ pending = <<>>
    /\ promptResponse = Absent
    /\ personaResponse = Absent
    /\ navigated = FALSE
    /\ edits = 0
    /\ lastOp = "init"
    /\ lastArg = 0
    /\ toggleLog = <<>>

\* the editor opened on a persona with collections, under any props
InitLists ==
    /\ existingPersona \in {Absent} \cup {Some(p) : p \in ListPersonas}
    /\ llmOverrideOptions \in LlmOverrideOptionLists
    /\ defaultLLM \in DefaultLLMs
    /\ mounted = FALSE
    /\ values = initialValues(existingPersona)
    /\ isSubmitting = FALSE
    /\ finalPrompt = <<>>
    /\ finalPromptError = ""
    /\ popup = Absent
    /\ previewInFlight = <<>>
    /\ response = Absent
    /\ pending = <<>>
    /\ promptResponse = Absent
    /\ personaResponse = Absent
    /\ navigated = FALSE
    /\ edits = 0
    /\ lastOp = "init"
    /\ lastArg = 0
    /\ toggleLog = <<>>

\* --------------------------------------------------------- preview
\* triggerFinalPromptUpdate up to its await: the request is in flight
triggerFinalPromptUpdate(sys, task, disabled) ==
    previewInFlight' = Append(previewInFlight, PreviewRequest(sys, task, disabled))

CanTrigger == Len(previewInFlight) < MaxInFlight

\* variant: a failed response clears the preview
PreviewNextClearing(ok, current, template) == IF ok THEN template ELSE <<>>

\* the rest of triggerFinalPromptUpdate: request i receives its response
PreviewNext(ok, current, template) == IF ok THEN template ELSE current

\* variant: a response to a request that is no longer the latest is dropped
PreviewCompleteDiscardingStale(i, ok) ==
    /\ mounted /\ ~navigated
    /\ i \in 1..Len(previewInFlight)
    /\ LET req == previewInFlight[i]
           template == BuildFinalPrompt(req)
       IN /\ response' = Some([ok |-> ok, template |-> IF ok THEN template ELSE <<>>])
          /\ finalPrompt' = IF i = Len(previewInFlight)
                            THEN PreviewNext(ok, finalPrompt, template)
                            ELSE finalPrompt
    /\ previewInFlight' =
           SubSeq(previewInFlight, 1, i - 1)
             \o SubSeq(previewInFlight, i + 1, Len(previewInFlight))
    /\ lastOp' = "preview"
    /\ UNCHANGED <<existingPersona, llmOverrideOptions, defaultLLM,
                   lastArg, toggleLog, mounted, values, isSubmitting,
                   finalPromptError, popup, pending,
                   promptResponse, personaResponse, navigated, edits>>

PreviewComplete(i, ok) ==
    /\ mounted /\ ~navigated
    /\ i \in 1..Len(previewInFlight)
    /\ LET req == previewInFlight[i]
           template == BuildFinalPrompt(req)
       IN /\ response' = Some([ok |-> ok, template |-> IF ok THEN template ELSE <<>>])
          /\ finalPrompt' = PreviewNext(ok, finalPrompt, template)
    /\ previewInFlight' =
           SubSeq(previewInFlight, 1, i - 1)
             \o SubSeq(previewInFlight, i + 1, Len(previewInFlight))
    /\ lastOp' = "preview"
    /\ UNCHANGED <<existingPersona, llmOverrideOptions, defaultLLM,
                   lastArg, toggleLog, mounted, values, isSubmitting,
                   finalPromptError, popup, pending,
                   promptResponse, personaResponse, navigated, edits>>

\* variant: the mount request always asks for a preview with retrieval
MountRetrievalOn ==
    /\ ~mounted
    /\ mounted' = TRUE
    /\ IF isUpdate /\ IsPresent(existingPrompt)
       THEN triggerFinalPromptUpdate(
                Get(existingPrompt).system_prompt,
                Get(existingPrompt).task_prompt,
                FALSE)
       ELSE UNCHANGED previewInFlight
    /\ lastOp' = "mount"
    /\ UNCHANGED <<existingPersona, llmOverrideOptions, defaultLLM,
                   lastArg, toggleLog, values, isSubmitting, finalPrompt,
                   finalPromptError, popup, response, pending,
                   promptResponse, personaResponse, navigated, edits>>

\* the mount effect
Mount ==
    /\ ~mounted
    /\ mounted' = TRUE
    /\ IF isUpdate /\ IsPresent(existingPrompt)
       THEN triggerFinalPromptUpdate(
                Get(existingPrompt).system_prompt,
                Get(existingPrompt).task_prompt,
                Get(existingPersona).num_chunks = Num(0))
       ELSE UNCHANGED previewInFlight
    /\ lastOp' = "mount"
    /\ UNCHANGED <<existingPersona, llmOverrideOptions, defaultLLM,
                   lastArg, toggleLog, values, isSubmitting, finalPrompt,
                   finalPromptError, popup, response, pending,
                   promptResponse, personaResponse, navigated, edits>>

\* ------------------------------------------------------ field edits
\* the form is on screen
CanAct == mounted /\ ~navigated

CanEdit == CanAct /\ edits < MaxEdits

\* Formik's setFieldValue: store the value, then validate the new values
setFieldValue(newValues) ==
    /\ values' = newValues
    /\ finalPromptError' = TestError(newValues)

EditFrame ==
    /\ edits' = edits + 1
    /\ UNCHANGED <<existingPersona, llmOverrideOptions, defaultLLM,
                   lastArg, toggleLog, mounted, isSubmitting, finalPrompt, popup,
                   response, pending, promptResponse,
                   personaResponse, navigated>>

ChangeName(str) ==
    /\ CanEdit /\ ~isUpdate
    /\ setFieldValue([values EXCEPT !.name = str])
    /\ UNCHANGED previewInFlight
    /\ lastOp' = "change"
    /\ EditFrame

ChangeDescription(str) ==
    /\ CanEdit
    /\ setFieldValue([values EXCEPT !.description = str])
    /\ UNCHANGED previewInFlight
    /\ lastOp' = "change"
    /\ EditFrame

ChangeSystemPrompt(str) ==
    /\ CanEdit /\ CanTrigger
    /\ setFieldValue([values EXCEPT !.system_prompt = str])
    /\ triggerFinalPromptUpdate(str, values.task_prompt, values.disable_retrieval)
    /\ lastOp' = "change"
    /\ EditFrame

ChangeTaskPrompt(str) ==
    /\ CanEdit /\ CanTrigger
    /\ setFieldValue([values EXCEPT !.task_prompt = str])
    /\ triggerFinalPromptUpdate(values.system_prompt, str, values.disable_retrieval)
    /\ lastOp' = "change"
    /\ EditFrame

ChangeDisableRetrieval(checked) ==
    /\ CanEdit /\ CanTrigger
    /\ setFieldValue([values EXCEPT !.disable_retrieval = checked])
    /\ triggerFinalPromptUpdate(values.system_prompt, values.task_prompt, checked)
    /\ lastOp' = "change"
    /\ EditFrame

\* /^[0-9]+$/.test(value)
IsDigits(text) == text # <<>> /\ \A i \in 1..Len(text) : text[i] \in 0..9

ChangeNumChunks(text) ==
    /\ CanEdit /\ ~values.disable_retrieval
    /\ IF text = <<>> \/ IsDigits(text)
       THEN /\ setFieldValue([values EXCEPT !.num_chunks = Str(text)])
            /\ lastOp' = "change"
       ELSE /\ UNCHANGED <<values, finalPromptError>>
            /\ lastOp' = "ignored"
    /\ UNCHANGED previewInFlight
    /\ EditFrame

\* ------------------------------------------------------ collections
\* Array.prototype.indexOf: the 0-based position of the first x, or -1
indexOf(list, x) ==
    IF \E k \in 1..Len(list) : list[k] = x
    THEN (CHOOSE k \in 1..Len(list) :
              list[k] = x /\ \A j \in 1..(k - 1) : list[j] # x) - 1
    ELSE -1

\* arrayHelpers.push(value): a copy with the value at the end
push(list, value) == Append(list, value)

\* variant: every entry equal to the one at the index is dropped
removeByValue(list, index) ==
    IF index \in 0..(Len(list) - 1)
    THEN SelectSeq(list, LAMBDA x : x # list[index + 1])
    ELSE list

\* arrayHelpers.remove(index): a copy without the entry at the 0-based index
remove(list, index) ==
    IF index \in 0..(Len(list) - 1)
    THEN SubSeq(list, 1, index) \o SubSeq(list, index + 2, Len(list))
    ELSE list

\* variant: the click does not look the id up
toggleAlwaysPush(list, id) == push(list, id)

\* variant: a selected id is removed at the front, not at its index
toggleRemovingFirst(list, id) ==
    LET ind == indexOf(list, id)
        isSelected == ind # -1
    IN IF isSelected THEN remove(list, 0) ELSE push(list, id)

\* variant: an id that was not selected is put at the front
toggleInsertingFirst(list, id) ==
    LET ind == indexOf(list, id)
        isSelected == ind # -1
    IN IF isSelected THEN remove(list, ind) ELSE <<id>> \o list

\* the onClick of a document set, with the ind of the render it belongs to
toggle(list, id) ==
    LET ind == indexOf(list, id)
        isSelected == ind # -1
    IN IF isSelected THEN remove(list, ind) ELSE push(list, id)

\* a collection edit is possible
CanEditList == CanAct /\ edits < MaxListOps

ListFrame ==
    /\ edits' = edits + 1
    /\ UNCHANGED <<existingPersona, llmOverrideOptions, defaultLLM, mounted,
                   isSubmitting, finalPrompt, popup, previewInFlight, response,
                   pending, promptResponse, personaResponse, navigated>>

\* the last two entries of the log, the new one included
Logged(log, entry) ==
    LET all == Append(log, entry)
    IN IF Len(all) > 2 THEN SubSeq(all, Len(all) - 1, Len(all)) ELSE all

\* a click on the document set `id`
ToggleDocumentSet(id) ==
    /\ CanEditList /\ DataAccessVisible(values)
    /\ setFieldValue([values EXCEPT
           !.document_set_ids = toggle(values.document_set_ids, id)])
    /\ toggleLog' = Logged(toggleLog, [id |-> id, before |-> values.document_set_ids])
    /\ lastOp' = "toggle"
    /\ UNCHANGED lastArg
    /\ ListFrame

\* starter_messages as a list: null has no entries
StarterList(v) ==
    IF IsPresent(v.starter_messages) THEN Get(v.starter_messages) ELSE <<>>

\* a click on "Add New": arrayHelpers.push("")
AddStarterMessage ==
    /\ CanEditList /\ StarterMessagesVisible
    /\ Len(StarterList(values)) < MaxStarterMessages
    /\ setFieldValue([values EXCEPT
           !.starter_messages = Some(push(StarterList(values), EmptyString))])
    /\ lastOp' = "add"
    /\ UNCHANGED <<lastArg, toggleLog>>
    /\ ListFrame

\* a click on the X of the entry rendered at `index`
RemoveStarterMessage(index) ==
    /\ CanEditList /\ StarterMessagesVisible
    /\ index \in 0..(Len(StarterList(values)) - 1)
    /\ setFieldValue([values EXCEPT
           !.starter_messages = Some(remove(StarterList(values), index))])
    /\ lastOp' = "remove"
    /\ lastArg' = index
    /\ UNCHANGED toggleLog
    /\ ListFrame

\* a choice in the model selector
SelectModel(k) ==
    /\ CanEdit /\ ModelSelectionVisible(llmOverrideOptions, defaultLLM)
    /\ k \in 1..Len(llmOverrideOptions)
    /\ setFieldValue([values EXCEPT
           !.llm_model_version_override = Some(llmOverrideOptions[k])])
    /\ UNCHANGED previewInFlight
    /\ lastOp' = "change"
    /\ EditFrame

\* ------------------------------------------------------- submission
\* variant: the button lacks disabled={isSubmitting}
SubmitAlwaysEnabled == TRUE

\* the submit button, disabled={isSubmitting}
SubmitEnabled == ~isSubmitting

\* variant: disable_retrieval is not consulted
EffectiveNumChunksIgnoringDisable(v) ==
    IF Truthy(v.num_chunks) THEN v.num_chunks ELSE Num(DefaultNumChunks)

\* variant: the "|| 10" default is missing
EffectiveNumChunksNoDefault(v) ==
    IF v.disable_retrieval THEN Num(0) ELSE v.num_chunks

\* values.disable_retrieval ? 0 : values.num_chunks || 10
EffectiveNumChunks(v) ==
    IF v.disable_retrieval THEN Num(0)
    ELSE IF Truthy(v.num_chunks) THEN v.num_chunks
    ELSE Num(DefaultNumChunks)

\* the argument of updatePersona / createPersona
PersistRequest(v) ==
    [kind |-> IF isUpdate THEN "update" ELSE "create",
     id |-> IF isUpdate THEN Some(Get(existingPersona).id) ELSE Absent,
     existingPromptId |->
         IF IsPresent(existingPrompt) THEN Some(Get(existingPrompt).id) ELSE Absent,
     values |-> [v EXCEPT !.num_chunks = EffectiveNumChunks(v)]]

\* variant: onSubmit lacks the guard
SubmitGuardNeverBlocks(err) == FALSE

\* onSubmit's guard on the cross-field error
SubmitGuardBlocks(err) == err # ""

\* Formik's SUBMIT_FAILURE: validation holds an error, onSubmit is not called
SubmitRejected ==
    /\ isSubmitting' = FALSE
    /\ UNCHANGED <<popup, pending, promptResponse, personaResponse>>

\* onSubmit up to its await, run with the cross-field error `err` in scope;
\* the invocation's locals promptResponse and personaResponse start undefined
onSubmit(err) ==
    /\ promptResponse' = Absent
    /\ personaResponse' = Absent
    /\ IF SubmitGuardBlocks(err)
       THEN /\ popup' = Some([type |-> "error", message |-> <<SubmitBlockedMessage>>])
            /\ isSubmitting' = FALSE
            /\ UNCHANGED pending
       ELSE /\ Len(pending) < MaxPending
            /\ isSubmitting' = TRUE
            /\ pending' = Append(pending, PersistRequest(values))
            /\ UNCHANGED popup

\* variant: the attempt writes the effective chunk count back to the draft
SubmitStoringChunks(objectErrorHeld) ==
    /\ CanAct /\ SubmitEnabled
    /\ finalPromptError' = TestError(values)
    /\ IF ~FieldsValid(values) \/ (~TestPasses(values) /\ objectErrorHeld)
       THEN SubmitRejected
       ELSE onSubmit(TestError(values))
    /\ lastOp' = "submit"
    /\ values' = [values EXCEPT !.num_chunks = EffectiveNumChunks(values)]
    /\ UNCHANGED <<existingPersona, llmOverrideOptions, defaultLLM,
                   lastArg, toggleLog, mounted, finalPrompt,
                   previewInFlight, response, navigated, edits>>

\* a click on the submit button: Formik validates, then calls onSubmit
Submit(objectErrorHeld) ==
    /\ CanAct /\ SubmitEnabled
    /\ finalPromptError' = TestError(values)
    /\ IF ~FieldsValid(values) \/ (~TestPasses(values) /\ objectErrorHeld)
       THEN SubmitRejected
       ELSE onSubmit(TestError(values))
    /\ lastOp' = "submit"
    /\ UNCHANGED <<existingPersona, llmOverrideOptions, defaultLLM,
                   lastArg, toggleLog, mounted, values, finalPrompt,
                   previewInFlight, response, navigated, edits>>

\* let error = null; if (!promptResponse.ok) ...; if (personaResponse && ...) ...
SubmitError(pr, per) ==
    LET first == IF ~pr.ok THEN Some(pr.body) ELSE Absent
    IN IF IsPresent(per) /\ ~Get(per).ok THEN Some(Get(per).body) ELSE first

\* if (error)
ErrorTruthy(error) == IsPresent(error) /\ Get(error) # ""

FailureMessage(body) == <<"Failed to create Persona - ", body>>

\* variant: nothing resets isSubmitting after a failed response
HandleResponseKeepingFlag(i, pr, per) ==
    /\ mounted /\ ~navigated
    /\ i \in 1..Len(pending)
    /\ promptResponse' = Some(pr)
    /\ personaResponse' = per
    /\ LET error == SubmitError(pr, per)
       IN IF ErrorTruthy(error)
          THEN /\ popup' = Some([type |-> "error",
                                 message |-> FailureMessage(Get(error))])
               /\ UNCHANGED navigated
          ELSE /\ navigated' = TRUE
               /\ UNCHANGED popup
    /\ isSubmitting' = (isSubmitting /\ ErrorTruthy(SubmitError(pr, per)))
    /\ pending' = SubSeq(pending, 1, i - 1) \o SubSeq(pending, i + 1, Len(pending))
    /\ lastOp' = "response"
    /\ UNCHANGED <<existingPersona, llmOverrideOptions, defaultLLM,
                   lastArg, toggleLog, mounted, values, finalPrompt,
                   finalPromptError, previewInFlight, response, edits>>

\* the rest of onSubmit: request i resolves to the pair (pr, per)
HandleResponse(i, pr, per) ==
    /\ mounted /\ ~navigated
    /\ i \in 1..Len(pending)
    /\ promptResponse' = Some(pr)
    /\ personaResponse' = per
    /\ LET error == SubmitError(pr, per)
       IN IF ErrorTruthy(error)
          THEN /\ popup' = Some([type |-> "error",
                                 message |-> FailureMessage(Get(error))])
               /\ UNCHANGED navigated
          ELSE /\ navigated' = TRUE
               /\ UNCHANGED popup
    /\ isSubmitting' = FALSE
    /\ pending' = SubSeq(pending, 1, i - 1) \o SubSeq(pending, i + 1, Len(pending))
    /\ lastOp' = "response"
    /\ UNCHANGED <<existingPersona, llmOverrideOptions, defaultLLM,
                   lastArg, toggleLog, mounted, values, finalPrompt,
                   finalPromptError, previewInFlight, response, edits>>

\* ------------------------------------------------------ specification
Next ==
    \/ Mount
    \/ \E str \in Names : ChangeName(str)
    \/ \E str \in Descriptions : ChangeDescription(str)
    \/ \E str \in SystemPrompts : ChangeSystemPrompt(str)
    \/ \E str \in TaskPrompts : ChangeTaskPrompt(str)
    \/ \E checked \in BOOLEAN : ChangeDisableRetrieval(checked)
    \/ \E text \in TypedChunks : ChangeNumChunks(text)
    \/ \E held \in BOOLEAN : Submit(held)
    \/ \E i \in 1..MaxPending, pr \in PromptResponses, per \in PersonaResponses :
           HandleResponse(i, pr, per)
    \/ \E i \in 1..MaxInFlight, ok \in BOOLEAN : PreviewComplete(i, ok)

Spec == Init /\ [][Next]_vars

\* the editor in an environment where every preview request succeeds
NextOkPreviews ==
    \/ Mount
    \/ \E str \in Names : ChangeName(str)
    \/ \E str \in Descriptions : ChangeDescription(str)
    \/ \E str \in SystemPrompts : ChangeSystemPrompt(str)
    \/ \E str \in TaskPrompts : ChangeTaskPrompt(str)
    \/ \E checked \in BOOLEAN : ChangeDisableRetrieval(checked)
    \/ \E text \in TypedChunks : ChangeNumChunks(text)
    \/ \E held \in BOOLEAN : Submit(held)
    \/ \E i \in 1..MaxPending, pr \in PromptResponses, per \in PersonaResponses :
           HandleResponse(i, pr, per)
    \/ \E i \in 1..MaxInFlight : PreviewComplete(i, TRUE)

\* the persistence collaborator answers every request it has received
Responds ==
    \E i \in 1..MaxPending, pr \in PromptResponses, per \in PersonaResponses :
        HandleResponse(i, pr, per)

\* the editor's submission path: the fields the per-field rules read, the
\* submit button and the collaborator's responses
NextSubmit ==
    \/ Mount
    \/ \E str \in Names : ChangeName(str)
    \/ \E str \in Descriptions : ChangeDescription(str)
    \/ \E text \in TypedChunks : ChangeNumChunks(text)
    \/ \E held \in BOOLEAN : Submit(held)
    \/ Responds

FairSubmitSpec == Init /\ [][NextSubmit]_vars /\ WF_vars(Responds)

SpecOkPreviews == Init /\ [][NextOkPreviews]_vars

\* the editor's conditional sections and collections
NextLists ==
    \/ Mount
    \/ \E checked \in BOOLEAN : ChangeDisableRetrieval(checked)
    \/ \E k \in 1..Len(llmOverrideOptions) : SelectModel(k)
    \/ \E k \in 1..Len(DocumentSets) : ToggleDocumentSet(DocumentSets[k])
    \/ AddStarterMessage
    \/ \E index \in 0..(MaxStarterMessages - 1) : RemoveStarterMessage(index)
    \/ \E i \in 1..MaxInFlight, ok \in BOOLEAN : PreviewComplete(i, ok)

SpecLists == InitLists /\ [][NextLists]_vars

\* ====================================================== properties
BothPromptsEmpty == values.system_prompt = "" /\ values.task_prompt = ""

\* the request dispatched last
LastRequest == pending[Len(pending)]

BlockedPopup == Some([type |-> "error", message |-> <<SubmitBlockedMessage>>])

\* C1: a submit attempt made while both prompts are empty leaves the
\* cross-field error set and dispatches no createPersona/updatePersona call.
C1_EmptyPromptsBlockSubmit ==
    (lastOp = "submit" /\ BothPromptsEmpty)
        => /\ finalPromptError = PromptError
           /\ pending = <<>>
           /\ ~isSubmitting

\* an update-mode draft that passes every per-field rule, both prompts empty,
\* was submitted and stopped at onSubmit's guard
C1_Witness ==
    /\ lastOp = "submit" /\ BothPromptsEmpty
    /\ isUpdate /\ FieldsValid(values)
    /\ popup = BlockedPopup
    /\ pending = <<>>

\* C2: after every evaluation of the cross-field rule (a field change or a
\* submit attempt) finalPromptError is empty exactly when at least one of
\* the two prompts is non-empty.
C2_ErrorIffBothEmpty ==
    lastOp \in {"change", "submit"}
        => ((finalPromptError = "") <=> ~BothPromptsEmpty)

\* the error was set at a blocked submit, then exactly one prompt was typed
\* and the next evaluation cleared it
C2_Witness ==
    /\ lastOp = "change"
    /\ popup = BlockedPopup
    /\ values.system_prompt # "" /\ values.task_prompt = ""
    /\ finalPromptError = ""

\* C3: a request dispatched from a draft with disable_retrieval set carries
\* the chunk count 0, whatever num_chunks the draft holds.
C3_DisabledRetrievalSendsZero ==
    \A i \in 1..Len(pending) :
        pending[i].values.disable_retrieval => pending[i].values.num_chunks = Num(0)

\* stored 15, retrieval switched off, submitted
C3_Witness ==
    /\ lastOp = "submit" /\ pending # <<>>
    /\ values.disable_retrieval /\ values.num_chunks = Num(15)
    /\ LastRequest.values.num_chunks = Num(0)

\* C4: a request dispatched from a draft with retrieval enabled and
\* num_chunks = null carries the chunk count 10.
C4_NullChunksSendTen ==
    (lastOp = "submit" /\ pending # <<>>
       /\ ~values.disable_retrieval /\ values.num_chunks = Null)
        => LastRequest.values.num_chunks = Num(10)

C4_Witness ==
    /\ lastOp = "submit" /\ pending # <<>>
    /\ ~values.disable_retrieval /\ values.num_chunks = Null
    /\ LastRequest.values.num_chunks = Num(10)

\* the number a stored chunk count denotes is within 0..20
DenotesChunkCount(x) ==
    \/ x.t = "num" /\ x.n \in 0..MaxNumChunks
    \/ x.t = "str" /\ x.s # <<>> /\ DigitsValue(x.s) \in 0..MaxNumChunks

\* C5: a request dispatched from a draft with retrieval enabled and a stored
\* num_chunks in 0..20 carries exactly the stored value, 0 included.
C5_StoredChunksSent ==
    (lastOp = "submit" /\ pending # <<>>
       /\ ~values.disable_retrieval /\ DenotesChunkCount(values.num_chunks))
        => LastRequest.values.num_chunks = values.num_chunks

\* C6: navigation happens only if every returned response reports ok.
C6_NavigateOnlyIfAllOk ==
    navigated
        => /\ Get(promptResponse).ok
           /\ (IsPresent(personaResponse) => Get(personaResponse).ok)

\* C7: after a failed submission the pop-up carries the body of the first
\* failed response: the prompt response's when that one is not ok.
C7_FirstErrorShown ==
    (lastOp = "response" /\ ~navigated)
        => popup = Some([type |-> "error",
                         message |-> FailureMessage(
                             IF ~Get(promptResponse).ok
                             THEN Get(promptResponse).body
                             ELSE Get(personaResponse).body)])

\* a response pair in which some returned response is not ok
SomeResponseFailed(pr, per) ==
    \/ ~Get(pr).ok
    \/ IsPresent(per) /\ ~Get(per).ok

\* C8: handling a failed submission leaves every field of the draft as it
\* was, shows the error pop-up, re-enables the submit button, does not
\* navigate and issues no further collaborator call.
C8_FailureKeepsDraft ==
    [][(lastOp' = "response" /\ SomeResponseFailed(promptResponse', personaResponse'))
          => /\ values' = values
             /\ IsPresent(popup')
             /\ Get(popup').type = "error"
             /\ Get(popup').message[1] = FailureMessage("")[1]
             /\ ~isSubmitting'
             /\ ~navigated'
             /\ Len(pending') < Len(pending)
             /\ previewInFlight' = previewInFlight]_vars

\* C9: at most one createPersona/updatePersona call is pending, and the
\* submit button stays disabled for as long as one is.
C9_OnePendingRequest ==
    /\ Len(pending) <= 1
    /\ (pending # <<>> => isSubmitting)

\* the user edited the draft while the request was pending
C9_Witness ==
    /\ Len(pending) = 1 /\ isSubmitting
    /\ lastOp = "change"
    /\ LastRequest.values.disable_retrieval # values.disable_retrieval

\* C10: a preview completion with a non-ok response leaves the preview, the
\* pop-up and the cross-field error as they were; one with an ok response
\* makes the preview the returned template.
C10_PreviewCompletion ==
    [][(lastOp' = "preview")
          => IF Get(response').ok
             THEN finalPrompt' = Get(response').template
             ELSE /\ finalPrompt' = finalPrompt
                  /\ popup' = popup
                  /\ finalPromptError' = finalPromptError]_vars

\* a template is on display and the completion handled last had failed
C10_Witness ==
    /\ lastOp = "preview"
    /\ ~Get(response).ok
    /\ finalPrompt # <<>>

\* the preview request the current draft calls for
CurrentPreviewRequest ==
    PreviewRequest(values.system_prompt, values.task_prompt,
                   values.disable_retrieval)

\* C11: once no preview request is in flight and every request issued has
\* completed with an ok response, the preview on display is the template of
\* the draft's current prompts and retrieval flag, whatever the order in
\* which the requests completed.
C11_PreviewEventuallyConsistent ==
    (previewInFlight = <<>> /\ IsPresent(response))
        => finalPrompt = BuildFinalPrompt(CurrentPreviewRequest)

\* C12: the preview changes only when a preview request completes with an ok
\* response, and it then becomes the template of that very request, whichever
\* position the request had among those in flight.
C12_LastCompletedWins ==
    [][IF lastOp' = "preview" /\ Get(response').ok
       THEN \E i \in 1..Len(previewInFlight) :
               /\ previewInFlight' =
                      SubSeq(previewInFlight, 1, i - 1)
                        \o SubSeq(previewInFlight, i + 1, Len(previewInFlight))
               /\ finalPrompt' = BuildFinalPrompt(previewInFlight[i])
       ELSE finalPrompt' = finalPrompt]_vars

\* every request has completed, the last completion was ok, and the preview
\* on display is the template of an earlier request, not of the current draft
C12_Witness ==
    /\ lastOp = "preview"
    /\ previewInFlight = <<>>
    /\ Get(response).ok
    /\ finalPrompt = Get(response).template
    /\ finalPrompt # BuildFinalPrompt(CurrentPreviewRequest)

NoDuplicates(list) ==
    \A j, k \in 1..Len(list) : list[j] = list[k] => j = k

\* C13: a document_set_ids list that starts without duplicates holds no id
\* twice after any sequence of document-set clicks.
C13_NoDuplicateDocumentSets == NoDuplicates(values.document_set_ids)

\* two clicks were handled and three document sets are selected
C13_Witness ==
    /\ lastOp = "toggle"
    /\ Len(toggleLog) = 2
    /\ Len(values.document_set_ids) = 3

\* the last two clicks were on one id that was not selected before the first
AddedThenRemoved ==
    /\ Len(toggleLog) = 2
    /\ toggleLog[1].id = toggleLog[2].id
    /\ NoDuplicates(toggleLog[1].before)
    /\ \A k \in 1..Len(toggleLog[1].before) :
           toggleLog[1].before[k] # toggleLog[1].id

\* C14: clicking twice on a document set that was not selected (add, then
\* remove) leaves document_set_ids with its prior content and order.
C14_AddThenRemoveRestores ==
    AddedThenRemoved => values.document_set_ids = toggleLog[1].before

\* document set 3 was added to <<2, 1>> and removed again
C14_Witness ==
    /\ lastOp = "toggle"
    /\ AddedThenRemoved
    /\ toggleLog[1].before = <<2, 1>>
    /\ toggleLog[2].before = <<2, 1, 3>>
    /\ values.document_set_ids = <<2, 1>>

\* C15: removing the starter message at index i of a list of length n yields
\* the list of length n - 1 with the entries before i, then the entries
\* after i, in their order; entries equal to the removed one stay.
C15_RemoveIsPositional ==
    [][(lastOp' = "remove")
          => LET old == StarterList(values)
                 new == StarterList(values')
                 i == lastArg'
             IN /\ i \in 0..(Len(old) - 1)
                /\ Len(new) = Len(old) - 1
                /\ \A k \in 1..Len(new) :
                       new[k] = IF k <= i THEN old[k] ELSE old[k + 1]]_vars

\* index 1 was removed from <<a, a, b>>: the other "a" is still there
C15_Witness ==
    /\ lastOp = "remove"
    /\ lastArg = 1
    /\ edits = 1
    /\ StarterList(values) = <<StarterMessage("a"), StarterMessage("b")>>

RetrievalSections == {"citations", "data-access", "retrieval-customization"}

\* C16: the draft starts with disable_retrieval set exactly when the editor
\* is opened on a persona whose num_chunks is 0 (never in create mode), and
\* the citations control, the data-access section and the
\* retrieval-customization section are then not rendered.
C16_InitialDisableRetrieval ==
    (lastOp = "init")
        => /\ values.disable_retrieval
                <=> (isUpdate /\ Get(existingPersona).num_chunks = Num(0))
           /\ values.disable_retrieval
                => VisibleSections(values, llmOverrideOptions, defaultLLM)
                      \cap RetrievalSections = {}

\* the editor as opened on a persona with num_chunks = 0
C16_Witness ==
    /\ lastOp = "init"
    /\ isUpdate /\ Get(existingPersona).num_chunks = Num(0)
    /\ values.disable_retrieval
    /\ "data-access" \notin VisibleSections(values, llmOverrideOptions, defaultLLM)

\* C17: the three retrieval sections are rendered exactly when
\* disable_retrieval is false, the model-selection section exactly when
\* llmOverrideOptions is non-empty and defaultLLM is known, and the
\* starter-messages section always.
C17_VisibleSections ==
    LET visible == VisibleSections(values, llmOverrideOptions, defaultLLM)
    IN /\ \A section \in RetrievalSections :
              section \in visible <=> values.disable_retrieval = FALSE
       /\ "model-selection" \in visible
              <=> (llmOverrideOptions # <<>> /\ defaultLLM # "")
       /\ "starter-messages" \in visible

\* retrieval was switched off in the form, with options but no default model
C17_Witness ==
    /\ lastOp = "change"
    /\ values.disable_retrieval
    /\ ~initialValues(existingPersona).disable_retrieval
    /\ llmOverrideOptions # <<>> /\ defaultLLM = ""
    /\ VisibleSections(values, llmOverrideOptions, defaultLLM) = {"starter-messages"}

\* C18: a submit attempt on a draft with retrieval disabled, a prompt, a name
\* and a description dispatches a request, and that request carries chunk
\* count 0, whatever the hidden num_chunks field holds.
C18_HiddenFieldNeverBlocks ==
    (/\ lastOp = "submit"
     /\ values.disable_retrieval
     /\ ~BothPromptsEmpty
     /\ values.name # ""
     /\ values.description # "")
        => /\ pending # <<>>
           /\ LastRequest.values.num_chunks = Num(0)

\* the retrievalDisabled argument the stored chunk count calls for
StoredRetrievalDisabled == Get(existingPersona).num_chunks = Num(0)

\* C19 as stated: the mount effect issues exactly one preview request when a
\* persona is edited, none in create mode.
C19_OneRequestOnEveryUpdateMount ==
    (lastOp = "mount")
        => previewInFlight =
              IF isUpdate
              THEN <<PreviewRequest(values.system_prompt, values.task_prompt,
                                    StoredRetrievalDisabled)>>
              ELSE <<>>

\* C19: the mount effect issues exactly one preview request, for the stored
\* prompts and retrieval flag, when the edited persona has a prompt; it
\* issues none in create mode and none for a persona without prompts.
C19_OneRequestOnMountWithPrompt ==
    (lastOp = "mount")
        => previewInFlight =
              IF isUpdate /\ Len(Get(existingPersona).prompts) > 0
              THEN <<PreviewRequest(Get(existingPersona).prompts[1].system_prompt,
                                    Get(existingPersona).prompts[1].task_prompt,
                                    StoredRetrievalDisabled)>>
              ELSE <<>>

\* the editor was mounted on a persona with a prompt and num_chunks = 0
C19_Witness ==
    /\ lastOp = "mount"
    /\ isUpdate /\ StoredRetrievalDisabled
    /\ previewInFlight = <<PreviewRequest("s", "", TRUE)>>

\* C20: a submit attempt and the handling of its response leave every field
\* of the draft, num_chunks included, as it was.
C20_SubmitKeepsDraft ==
    [][(lastOp' \in {"submit", "response"}) => values' = values]_vars

\* "7" was typed, retrieval was disabled, and the request went out with 0
C20_Witness ==
    /\ lastOp = "submit"
    /\ pending # <<>>
    /\ values.disable_retrieval
    /\ values.num_chunks = Str(<<7>>)
    /\ LastRequest.values.num_chunks = Num(0)

\* a StarterMessage whose three fields are the empty string
BlankStarterMessage ==
    [t |-> "obj", name |-> "", description |-> "", message |-> ""]

\* C21: a click on "Add New" appends exactly one entry to starter_messages,
\* also when the collection is null, leaves the entries before it as they
\* were, and the new entry is a blank StarterMessage record.
C21_AppendBlankStarterMessage ==
    [][(lastOp' = "add")
          => StarterList(values') = Append(StarterList(values), BlankStarterMessage)]_vars

\* C21, the part about the collection alone: one entry more, at the end,
\* and the entries before it unchanged
C21_AppendKeepsEntries ==
    [][(lastOp' = "add")
          => /\ IsPresent(values'.starter_messages)
             /\ Len(StarterList(values')) = Len(StarterList(values)) + 1
             /\ SubSeq(StarterList(values'), 1, Len(StarterList(values)))
                    = StarterList(values)]_vars

\* C22: when the persistence collaborator answers every request, a set
\* isSubmitting flag is always cleared again or the editor navigates away;
\* a submit attempt that validation rejects or that onSubmit's guard stops
\* never leaves the flag set.
C22_SubmittingEventuallyCleared ==
    /\ isSubmitting ~> (~isSubmitting \/ navigated)
    /\ [][(lastOp' = "submit" /\ pending' = pending) => ~isSubmitting']_vars

\* a request was pending with the flag set, its response reported a failure,
\* and the submit button is enabled again
C22_Witness ==
    /\ lastOp = "response"
    /\ ~navigated
    /\ ~isSubmitting /\ SubmitEnabled
    /\ pending = <<>>
    /\ IsPresent(promptResponse) /\ ~Get(promptResponse).ok

\* the entries of a list other than id, in their order
Others(list, id) == SelectSeq(list, LAMBDA x : x # id)

IsSelected(list, id) == \E k \in 1..Len(list) : list[k] = id

\* the last two clicks were on one id that was selected before the first
RemovedThenAdded ==
    /\ Len(toggleLog) = 2
    /\ toggleLog[1].id = toggleLog[2].id
    /\ NoDuplicates(toggleLog[1].before)
    /\ IsSelected(toggleLog[1].before, toggleLog[1].id)

\* C23: a click on a document set flips that id's membership and leaves the
\* other ids selected as before and in the same relative order; two clicks
\* on a selected id (remove, then add) give the same ids with that id at
\* the end, which is the prior order exactly when the id was the last one.
C23_ToggleFrame ==
    /\ toggleLog # <<>>
          => LET last == toggleLog[Len(toggleLog)]
             IN /\ Others(values.document_set_ids, last.id)
                       = Others(last.before, last.id)
                /\ IsSelected(values.document_set_ids, last.id)
                       <=> ~IsSelected(last.before, last.id)
    /\ RemovedThenAdded
          => LET first == toggleLog[1]
             IN /\ values.document_set_ids
                       = Append(Others(first.before, first.id), first.id)
                /\ (values.document_set_ids = first.before)
                       <=> (first.before[Len(first.before)] = first.id)

\* document set 2 was removed from <<2, 1>> and added again: it is now last
C23_Witness ==
    /\ lastOp = "toggle"
    /\ RemovedThenAdded
    /\ toggleLog[1].before = <<2, 1>>
    /\ toggleLog[1].id = 2
    /\ values.document_set_ids = <<1, 2>>

====
